---- MODULE Spec2Model ----
(***************************************************************************)
(* Model of rtd_test/distributions/distribution_models.py: the Distribution *)
(* base class, DistributionDouble and the ten family classes.               *)
(*                                                                          *)
(* Four specifications share the module:                                    *)
(*   Spec        construction (set_seed / _set_theano_func) of two          *)
(*               structurally identical instances and calls on them         *)
(*   SpecShape   the tensor shapes fprop / sample_given_x produce           *)
(*   SpecParams  get_params of Distribution and DistributionDouble          *)
(*   SpecStick   Kumaraswamy._stick_breaking_process (the theano.scan fold) *)
(***************************************************************************)
EXTENDS Integers, Sequences, FiniteSets, TLC

VARIABLES
    family,    \* the class being instantiated (same for both instances)
    nGiven,    \* len(self.given)
    outMean,   \* last dim of get_output_shape(mean_network)
    outVar,    \* last dim of get_output_shape(var_network); 0 when there is none
    seed,      \* seed[i]: the seed argument of instance i's constructor
    pc,        \* pc[i]: position of instance i in its constructor
    rng,       \* rng[i]: random-stream state of self.distribution, <<seed, consumed>>
    built,     \* built[i]: the np_* attributes set so far
    log,       \* log[i]: the sampler / compile events of the constructor, in order
    err,       \* err[i]: the exception the constructor raised, or "none"
    drawn,     \* drawn[i]: stream consumption during graph construction
    last,      \* last[i]: the last method call on instance i and its outcome
    shp,       \* SpecShape: one sample_given_x / fprop shape evaluation
    prm,       \* SpecParams: one pair of networks and the get_params results
    stk        \* SpecStick: one run of _stick_breaking_process

lifeVars == <<family, nGiven, outMean, outVar, seed, pc, rng, built, log, err, drawn, last>>
vars == <<family, nGiven, outMean, outVar, seed, pc, rng, built, log, err, drawn, last,
          shp, prm, stk>>

----------------------------------------------------------------------------
(* Bounds *)
MaxSeed == 2
MaxGiven == 2
MaxFeat == 2
MaxDraw == 2
MaxPos == 2

Inst == {1, 2}

Min(a, b) == IF a < b THEN a ELSE b

----------------------------------------------------------------------------
(* The class hierarchy *)

Families == {"Deterministic", "Bernoulli", "Categorical", "Gaussian",
             "GaussianConstantVar", "Laplace", "Kumaraswamy", "Gamma", "Beta",
             "Dirichlet"}

\* subclasses of DistributionDouble
DistributionDouble == {"Gaussian", "Laplace", "Kumaraswamy", "Gamma", "Beta"}

\* self.set_log_likelihood: only Deterministic passes False; DistributionDouble
\* does not forward the argument, so the default True applies.
set_log_likelihood(f) == f # "Deterministic"

----------------------------------------------------------------------------
(* The elementary sampler (distribution_samples, not part of the sources):  *)
(* a random stream that seed() resets and sample() consumes.                *)

SamplerSetSeed(s) == <<s, 0>>

\* the stream of a freshly created sampler: XSample(seed=seed), DeterministicSample()
SamplerNew(f, s) == IF f = "Deterministic" THEN <<0, 0>> ELSE SamplerSetSeed(s)

SamplerAdvance(r, n) == <<r[1], r[2] + n>>

\* how much of the stream building the graph of sample() may consume
SampleDraws(f) == IF f = "Deterministic" THEN {0} ELSE 1..MaxDraw

\* log_likelihood of the sampler: unimplemented for the point mass
SamplerLogLikelihood(f) == IF f = "Deterministic" THEN "NotImplementedError" ELSE "ok"

----------------------------------------------------------------------------
(* Methods as functions of their arguments *)

\* Distribution.fprop: dict(zip(self.given, x)) inside try/except. zip stops at
\* the shorter argument and raises only when x cannot be iterated.
Distribution_fprop(iterable, xlen, g) ==
    IF ~iterable
    THEN [outcome |-> "ValueError", paired |-> 0]
    ELSE [outcome |-> "ok", paired |-> Min(g, xlen)]

\* DistributionDouble.fprop: the base fprop, then zip again for var_network
DistributionDouble_fprop(iterable, xlen, g) ==
    LET mean == Distribution_fprop(iterable, xlen, g)
    IN  IF mean.outcome # "ok" THEN mean
        ELSE [outcome |-> "ok", paired |-> Min(g, xlen)]

fprop(f, iterable, xlen, g) ==
    IF f \in DistributionDouble
    THEN DistributionDouble_fprop(iterable, xlen, g)
    ELSE Distribution_fprop(iterable, xlen, g)

\* log_likelihood_given_x. Kumaraswamy overrides it as (self, *args): a keyword
\* argument is rejected by the call itself, before the body runs.
log_likelihood_given_x(f, kw, g) ==
    IF f = "Kumaraswamy"
    THEN [outcome |-> IF kw THEN "TypeError" ELSE "NotImplementedError",
          delegated |-> FALSE]
    ELSE LET out == fprop(f, TRUE, g, g)
         IN  IF out.outcome # "ok"
             THEN [outcome |-> out.outcome, delegated |-> FALSE]
             ELSE [outcome |-> SamplerLogLikelihood(f), delegated |-> TRUE]

\* the record of a method call: where it was made ("construct": from
\* _set_theano_func, "call": by the user of the instance), the arguments, the outcome
NoCall == [at |-> "none", op |-> "none", iterable |-> TRUE, xlen |-> 0, kw |-> FALSE,
           outcome |-> "none", paired |-> 0, delegated |-> FALSE]

Called(o, it, n, k, res, p, d) ==
    [at |-> "call", op |-> o, iterable |-> it, xlen |-> n, kw |-> k, outcome |-> res,
     paired |-> p, delegated |-> d]

----------------------------------------------------------------------------
(* Construction. Python runs a constructor to completion before anything    *)
(* else happens, so at most one instance is inside its constructor.         *)

Idle(i) == \A j \in Inst \ {i} : pc[j] \in {"new", "done", "failed"}

\* Family.__init__ up to the call of set_seed in Distribution.__init__
Construct(i) ==
    /\ pc[i] = "new"
    /\ Idle(i)
    /\ rng' = [rng EXCEPT ![i] = SamplerNew(family, seed[i])]
    /\ pc' = [pc EXCEPT ![i] = "set_seed"]
    /\ UNCHANGED <<family, nGiven, outMean, outVar, seed, built, log, err, drawn,
                   last, shp, prm, stk>>

\* set_seed, first statement: seed for compiling the theano functions
set_seed_compile(i) ==
    /\ pc[i] = "set_seed"
    /\ rng' = [rng EXCEPT ![i] = SamplerSetSeed(seed[i])]
    /\ log' = [log EXCEPT ![i] = Append(@, "seed")]
    /\ pc' = [pc EXCEPT ![i] = "np_fprop"]
    /\ UNCHANGED <<family, nGiven, outMean, outVar, seed, built, err, drawn, last,
                   shp, prm, stk>>

\* _set_theano_func: fprop(x, deterministic=True) and np_fprop
build_np_fprop(i) ==
    /\ pc[i] = "np_fprop"
    /\ fprop(family, TRUE, nGiven, nGiven).outcome = "ok"
    /\ built' = [built EXCEPT ![i] = @ \cup {"np_fprop"}]
    /\ log' = [log EXCEPT ![i] = Append(@, "np_fprop")]
    /\ pc' = [pc EXCEPT ![i] = "np_sample_mean_given_x"]
    /\ UNCHANGED <<family, nGiven, outMean, outVar, seed, rng, err, drawn, last,
                   shp, prm, stk>>

\* _set_theano_func: sample_mean_given_x and np_sample_mean_given_x
build_np_sample_mean_given_x(i) ==
    /\ pc[i] = "np_sample_mean_given_x"
    /\ built' = [built EXCEPT ![i] = @ \cup {"np_sample_mean_given_x"}]
    /\ log' = [log EXCEPT ![i] = Append(@, "np_sample_mean_given_x")]
    /\ pc' = [pc EXCEPT ![i] = "np_sample_given_x"]
    /\ UNCHANGED <<family, nGiven, outMean, outVar, seed, rng, err, drawn, last,
                   shp, prm, stk>>

\* _set_theano_func: sample_given_x (self.distribution.sample builds the random
\* graph and consumes the stream) and np_sample_given_x
build_np_sample_given_x(i) ==
    /\ pc[i] = "np_sample_given_x"
    /\ \E n \in SampleDraws(family) :
          /\ rng' = [rng EXCEPT ![i] = SamplerAdvance(@, n)]
          /\ drawn' = [drawn EXCEPT ![i] = @ + n]
    /\ built' = [built EXCEPT ![i] = @ \cup {"np_sample_given_x"}]
    /\ log' = [log EXCEPT ![i] = Append(Append(@, "sample"), "np_sample_given_x")]
    /\ pc' = [pc EXCEPT ![i] = IF set_log_likelihood(family)
                               THEN "np_log_liklihood_given_x"
                               ELSE "set_seed_sampling"]
    /\ UNCHANGED <<family, nGiven, outMean, outVar, seed, err, last, shp, prm, stk>>

\* _set_theano_func: if self.set_log_likelihood, log_likelihood_given_x(
\* [x, sample], deterministic=True) and np_log_liklihood_given_x
build_np_log_liklihood_given_x(i) ==
    /\ pc[i] = "np_log_liklihood_given_x"
    /\ LET res == log_likelihood_given_x(family, TRUE, nGiven)
       IN  /\ last' = [last EXCEPT ![i] =
                  [Called("log_likelihood_given_x", TRUE, nGiven, TRUE, res.outcome,
                          nGiven, res.delegated) EXCEPT !.at = "construct"]]
           /\ IF res.outcome = "ok"
              THEN /\ built' = [built EXCEPT ![i] = @ \cup {"np_log_liklihood_given_x"}]
                   /\ log' = [log EXCEPT ![i] =
                          Append(Append(@, "log_likelihood"), "np_log_liklihood_given_x")]
                   /\ pc' = [pc EXCEPT ![i] = "set_seed_sampling"]
                   /\ err' = err
              ELSE /\ pc' = [pc EXCEPT ![i] = "failed"]
                   /\ err' = [err EXCEPT ![i] = res.outcome]
                   /\ log' = [log EXCEPT ![i] = Append(@, "log_likelihood_given_x")]
                   /\ built' = built
    /\ UNCHANGED <<family, nGiven, outMean, outVar, seed, rng, drawn, shp, prm, stk>>

\* the state set_seed's last statement leaves the stream in
ReseedSkipped(r, s) == r

ReseedKeepsPosition(r, s) == <<s, r[2]>>

Reseed(r, s) == SamplerSetSeed(s)

\* set_seed, last statement: seed for actual sampling; then back in
\* DistributionDouble.__init__ (shape check) or finished
set_seed_sampling(i) ==
    /\ pc[i] = "set_seed_sampling"
    /\ rng' = [rng EXCEPT ![i] = Reseed(@, seed[i])]
    /\ log' = [log EXCEPT ![i] = Append(@, "seed")]
    /\ pc' = [pc EXCEPT ![i] = IF family \in DistributionDouble
                               THEN "shape_check" ELSE "done"]
    /\ UNCHANGED <<family, nGiven, outMean, outVar, seed, built, err, drawn, last,
                   shp, prm, stk>>

\* DistributionDouble.__init__ after super().__init__ returned: compare the
\* output shapes of the two networks
shape_check(i) ==
    /\ pc[i] = "shape_check"
    /\ IF outMean # outVar
       THEN /\ pc' = [pc EXCEPT ![i] = "failed"]
            /\ err' = [err EXCEPT ![i] = "ValueError"]
       ELSE /\ pc' = [pc EXCEPT ![i] = "done"]
            /\ err' = err
    /\ UNCHANGED <<family, nGiven, outMean, outVar, seed, rng, built, log, drawn, last,
                   shp, prm, stk>>

----------------------------------------------------------------------------
(* Calls on the constructed instances. Both instances receive the same call *)
(* with the same arguments, one after the other.                            *)

AllDone == \A i \in Inst : pc[i] = "done"

\* fprop(x) with x a list of any length, or something that is no list
call_fprop ==
    /\ AllDone
    /\ \E it \in BOOLEAN, n \in 0..(MaxGiven + 1) :
          last' = [i \in Inst |->
                     LET res == fprop(family, it, n, nGiven)
                     IN  Called("fprop", it, n, FALSE, res.outcome, res.paired, FALSE)]
    /\ UNCHANGED <<family, nGiven, outMean, outVar, seed, pc, rng, built, log, err,
                   drawn, shp, prm, stk>>

\* np_sample_mean_given_x(*inputs): no randomness
call_np_sample_mean_given_x ==
    /\ AllDone
    /\ last' = [i \in Inst |->
                  Called("np_sample_mean_given_x", TRUE, nGiven, FALSE, "ok", nGiven, FALSE)]
    /\ UNCHANGED <<family, nGiven, outMean, outVar, seed, pc, rng, built, log, err,
                   drawn, shp, prm, stk>>

\* np_sample_given_x(*inputs): one draw from the instance's stream
call_np_sample_given_x ==
    /\ AllDone
    /\ \A i \in Inst : rng[i][2] < MaxPos
    /\ rng' = [i \in Inst |-> SamplerAdvance(rng[i], 1)]
    /\ last' = [i \in Inst |->
                  Called("np_sample_given_x", TRUE, nGiven, FALSE, "ok", nGiven, FALSE)]
    /\ UNCHANGED <<family, nGiven, outMean, outVar, seed, pc, built, log, err,
                   drawn, shp, prm, stk>>

\* log_likelihood_given_x([x, sample]) with or without deterministic=...
call_log_likelihood_given_x ==
    /\ AllDone
    /\ \E kw \in BOOLEAN :
          last' = [i \in Inst |->
                     LET res == log_likelihood_given_x(family, kw, nGiven)
                     IN  Called("log_likelihood_given_x", TRUE, nGiven, kw, res.outcome,
                                nGiven, res.delegated)]
    /\ UNCHANGED <<family, nGiven, outMean, outVar, seed, pc, rng, built, log, err,
                   drawn, shp, prm, stk>>

ShapeIdle == [phase |-> "idle"]
ParamsIdle == [phase |-> "idle"]
StickIdle == [phase |-> "idle"]

Init ==
    /\ family \in Families
    /\ nGiven \in 1..MaxGiven
    /\ outMean \in 1..MaxFeat
    /\ outVar \in (IF family \in DistributionDouble THEN 1..MaxFeat ELSE {0})
    /\ seed \in [Inst -> 1..MaxSeed]
    /\ pc = [i \in Inst |-> "new"]
    /\ rng = [i \in Inst |-> <<0, 0>>]
    /\ built = [i \in Inst |-> {}]
    /\ log = [i \in Inst |-> <<>>]
    /\ err = [i \in Inst |-> "none"]
    /\ drawn = [i \in Inst |-> 0]
    /\ last = [i \in Inst |-> NoCall]
    /\ shp = ShapeIdle
    /\ prm = ParamsIdle
    /\ stk = StickIdle

Next ==
    \/ \E i \in Inst : Construct(i)
    \/ \E i \in Inst : set_seed_compile(i)
    \/ \E i \in Inst : build_np_fprop(i)
    \/ \E i \in Inst : build_np_sample_mean_given_x(i)
    \/ \E i \in Inst : build_np_sample_given_x(i)
    \/ \E i \in Inst : build_np_log_liklihood_given_x(i)
    \/ \E i \in Inst : set_seed_sampling(i)
    \/ \E i \in Inst : shape_check(i)
    \/ call_fprop
    \/ call_np_sample_mean_given_x
    \/ call_np_sample_given_x
    \/ call_log_likelihood_given_x

Spec == Init /\ [][Next]_vars

----------------------------------------------------------------------------
(* Claims checked under Spec *)

ValidPredictors == family \notin DistributionDouble \/ outMean = outVar

\* C1: fprop fails with the shape-mismatch error whenever len(x) # len(given),
\* for x shorter and for x longer than given.
C1_FpropRejectsLengthMismatch ==
    \A i \in Inst :
        (last[i].op = "fprop" /\ last[i].iterable /\ last[i].xlen # nGiven)
            => last[i].outcome = "ValueError"

\* C2: a dual-parameter distribution whose two predictors declare different
\* output shapes raises the shape-mismatch error before the sampler is seeded
\* or asked to sample and before any entry point is compiled.
C2_ShapeErrorBeforeSeedAndCompile ==
    \A i \in Inst :
        (family \in DistributionDouble /\ outMean # outVar)
            => /\ log[i] = <<>>
               /\ built[i] = {}
               /\ err[i] \in {"none", "ValueError"}

\* C3: log_likelihood_given_x on a Kumaraswamy or a Deterministic instance
\* raises the unsupported-operation error however the arguments are passed,
\* and never delegates to the sampler's log_likelihood.
C3_LogLikelihoodUnsupported ==
    \A i \in Inst :
        (last[i].op = "log_likelihood_given_x"
            /\ family \in {"Kumaraswamy", "Deterministic"})
            => /\ last[i].outcome = "NotImplementedError"
               /\ ~last[i].delegated

\* the events of a constructor that follows the two-phase seeding protocol
ExpectedLog(f) ==
    <<"seed", "np_fprop", "np_sample_mean_given_x", "sample", "np_sample_given_x">>
    \o (IF set_log_likelihood(f)
        THEN <<"log_likelihood", "np_log_liklihood_given_x">> ELSE <<>>)
    \o <<"seed">>

\* C8: two structurally identical instances constructed with the same seed
\* have equal random-stream states after construction and after every equal
\* sequence of calls.
C8_SameSeedSameStream ==
    (AllDone /\ seed[1] = seed[2]) => rng[1] = rng[2]

C8_Witness ==
    /\ AllDone
    /\ seed[1] = seed[2]
    /\ drawn[1] # drawn[2]
    /\ rng[1][2] > 0
    /\ last[1].op = "np_sample_given_x"

\* C9: a successful construction seeds the sampler, builds forward,
\* sample-mean, sample and (if enabled) log-likelihood in that order, and
\* seeds again last; the stream then is in the freshly seeded state whatever
\* the graph construction consumed.
C9_TwoPhaseSeeding ==
    \A i \in Inst :
        (pc[i] = "done" /\ last[i].at # "call")
            => /\ log[i] = ExpectedLog(family)
               /\ rng[i] = SamplerSetSeed(seed[i])

C9_Witness ==
    \E i \in Inst :
        /\ pc[i] = "done"
        /\ last[i].at = "construct"
        /\ drawn[i] > 1
        /\ "np_log_liklihood_given_x" \in built[i]

\* C10: constructing any family with valid predictors does not raise, leaves
\* forward, sample-mean and sample built, builds log-likelihood iff it is
\* enabled, and never invokes an unsupported log-likelihood operation.
C10_ConstructionSucceeds ==
    \A i \in Inst :
        ValidPredictors
            => /\ pc[i] # "failed"
               /\ (last[i].at = "construct" => last[i].outcome = "ok")
               /\ pc[i] = "done"
                    => built[i] = {"np_fprop", "np_sample_mean_given_x",
                                   "np_sample_given_x"}
                                  \cup (IF set_log_likelihood(family)
                                        THEN {"np_log_liklihood_given_x"} ELSE {})

----------------------------------------------------------------------------
(* SpecShape: the shapes of the tensors fprop and sample_given_x return.    *)
(* A shape is a sequence of dimensions, batch first.                        *)

MaxBatch == 2
MaxRepeat == 3
MaxRows == 2
MaxCols == 3
MaxParam == 2

ShapeError == <<>>

RECURSIVE Prod(_)
Prod(shape) == IF shape = <<>> THEN 1 ELSE Head(shape) * Prod(Tail(shape))

\* the output tensor of the predictor network for inputs of batch size b:
\* (batch, *feature_dims) with one or two feature dimensions
PredictorOutput(rank, rows, cols, b) ==
    IF rank = 2 THEN <<b, cols>> ELSE <<b, rows, cols>>

\* the shape of the sampler's sample(*parameters): that of its first parameter
SamplerSampleShape(mean) == mean

\* tensor.reshape((-1, cols))
ReshapeRows(shape, cols) ==
    IF cols > 0 /\ Prod(shape) % cols = 0
    THEN <<Prod(shape) \div cols, cols>>
    ELSE ShapeError

\* tensor.reshape(target) for a target without -1
ReshapeTo(shape, target) ==
    IF Prod(shape) = Prod(target) THEN target ELSE ShapeError

\* x = [T.extra_ops.repeat(_x, repeat, axis=0) for _x in x] under `if repeat != 1`
RepeatInputsDropped(b, repeat) == b

RepeatInputs(b, repeat) == IF repeat # 1 THEN b * repeat ELSE b

\* Categorical.__init__: self.k = self.get_output_shape()[-1]
CategoricalKFirstFeature(declared) == declared[2]

CategoricalK(declared) == declared[Len(declared)]

\* Categorical.fprop: the base fprop reshaped to (-1, n_dim * k)
Categorical_fprop(mean, n_dim) == ReshapeRows(mean, n_dim * CategoricalK(mean))

\* fprop of every class (for DistributionDouble: the mean of the pair)
fprop_shape(f, mean, par) ==
    IF f = "Categorical" THEN Categorical_fprop(mean, par) ELSE mean

\* Distribution.sample_given_x after the repeat: the sample of the parameters
Distribution_sample_given_x(mean) == {SamplerSampleShape(mean)}

\* Categorical.sample_given_x: sample(mean).reshape((-1, n_dim * k))
Categorical_sample_given_x(mean, n_dim) ==
    {ReshapeRows(SamplerSampleShape(mean), n_dim * CategoricalK(mean))}

\* Kumaraswamy._stick_breaking_process: (n_batch, n_dim) = v.shape, a scan over
\* the first n_dim - 1 columns, the last remaining stick appended as a column.
\* With one column the scan has no step and remaining_sticks[-1] is taken of
\* whatever theano.scan returns for an empty sequence: an error or the
\* initial stick.
stick_breaking_shape(v) ==
    IF Len(v) # 2 THEN {ShapeError}
    ELSE IF v[2] = 1 THEN {ShapeError, <<v[1], 1>>}
    ELSE {<<v[1], (v[2] - 1) + 1>>}

\* Kumaraswamy.sample_given_x: the base sample, then stick breaking if enabled
Kumaraswamy_sample_given_x(mean, stick_breaking) ==
    IF stick_breaking = 1
    THEN stick_breaking_shape(SamplerSampleShape(mean))
    ELSE {SamplerSampleShape(mean)}

\* Dirichlet.sample_given_x: mean.reshape((_shape[0], _shape[1] / k, k)),
\* sample, reshape(_shape)
Dirichlet_sample_given_x(mean, k) ==
    IF mean[2] % k # 0 THEN {ShapeError}
    ELSE LET grouped == ReshapeTo(mean, <<mean[1], mean[2] \div k, k>>)
         IN  IF grouped = ShapeError THEN {ShapeError}
             ELSE {ReshapeTo(SamplerSampleShape(grouped), mean)}

\* the shapes sample_given_x may return as the value, by class
sample_given_x_value(f, mean, par) ==
    CASE f = "Categorical" -> Categorical_sample_given_x(mean, par)
      [] f = "Kumaraswamy" -> Kumaraswamy_sample_given_x(mean, par)
      [] f = "Dirichlet" -> Dirichlet_sample_given_x(mean, par)
      [] OTHER -> Distribution_sample_given_x(mean)

\* the constructor argument that matters for the shape: n_dim of Categorical,
\* k of Dirichlet, stick_breaking (0 / 1) of Kumaraswamy
ShapeParams(f) ==
    CASE f = "Categorical" -> 1..MaxParam
      [] f = "Dirichlet" -> 1..MaxParam
      [] f = "Kumaraswamy" -> {0, 1}
      [] OTHER -> {0}

ShapeInit ==
    /\ \E f \in Families, b \in 1..MaxBatch, rank \in {2, 3}, cols \in 1..MaxCols :
         \E rows \in (IF rank = 3 THEN 1..MaxRows ELSE {1}), par \in ShapeParams(f) :
            shp = [phase |-> "input", family |-> f, batch |-> b, rank |-> rank,
                   rows |-> rows, cols |-> cols, par |-> par, op |-> "none",
                   repeat |-> 1, xs |-> 0, value |-> ShapeError]
    /\ family = "Deterministic" /\ nGiven = 1 /\ outMean = 1 /\ outVar = 0
    /\ seed = [i \in Inst |-> 1]
    /\ pc = [i \in Inst |-> "new"]
    /\ rng = [i \in Inst |-> <<0, 0>>]
    /\ built = [i \in Inst |-> {}]
    /\ log = [i \in Inst |-> <<>>]
    /\ err = [i \in Inst |-> "none"]
    /\ drawn = [i \in Inst |-> 0]
    /\ last = [i \in Inst |-> NoCall]
    /\ prm = ParamsIdle
    /\ stk = StickIdle

\* sample_given_x(x, repeat): repeat the inputs, fprop, sample, class transform
shape_sample_given_x ==
    /\ shp.phase = "input"
    /\ \E repeat \in 1..MaxRepeat :
         LET xs == RepeatInputs(shp.batch, repeat)
             mean == PredictorOutput(shp.rank, shp.rows, shp.cols, xs)
         IN  \E v \in sample_given_x_value(shp.family, mean, shp.par) :
                shp' = [shp EXCEPT !.phase = "done", !.op = "sample_given_x",
                                   !.repeat = repeat, !.xs = xs, !.value = v]
    /\ UNCHANGED <<lifeVars, prm, stk>>

\* fprop(x)
shape_fprop ==
    /\ shp.phase = "input"
    /\ LET mean == PredictorOutput(shp.rank, shp.rows, shp.cols, shp.batch)
       IN  shp' = [shp EXCEPT !.phase = "done", !.op = "fprop", !.xs = shp.batch,
                              !.value = fprop_shape(shp.family, mean, shp.par)]
    /\ UNCHANGED <<lifeVars, prm, stk>>

ShapeNext == shape_sample_given_x \/ shape_fprop

SpecShape == ShapeInit /\ [][ShapeNext]_vars

\* the number of values the predictor emits per batch element
PerElement == IF shp.rank = 2 THEN shp.cols ELSE shp.rows * shp.cols

\* C4 as stated: for every family and every repeat r >= 1, sample_given_x
\* returns inputs of batch r * batch and a value of the same batch.
C4_RepeatBatchAllFamilies ==
    (shp.op = "sample_given_x" /\ shp.value # ShapeError)
        => /\ shp.xs = shp.repeat * shp.batch
           /\ shp.value[1] = shp.xs

\* C4 amended: the inputs always come back with batch r * batch; the value has
\* that batch for every family, for Categorical provided the predictor emits
\* n_dim * k values per batch element, k being the last dimension of its
\* declared output shape.
C4_RepeatBatch ==
    (shp.op = "sample_given_x" /\ shp.value # ShapeError)
        => /\ shp.xs = shp.repeat * shp.batch
           /\ (shp.family = "Categorical" => PerElement = shp.par * shp.cols)
                => shp.value[1] = shp.xs

C4_Witness ==
    /\ shp.op = "sample_given_x"
    /\ shp.family = "Categorical"
    /\ shp.par = 2 /\ shp.rank = 3 /\ shp.rows = 2
    /\ shp.repeat = 3 /\ shp.batch = 2
    /\ shp.value = <<6, 2 * shp.cols>>

\* C6 as stated: a Categorical with n_dim draws whose predictor declares the
\* output shape (batch, n_dim * K): fprop returns (batch, n_dim * K) and
\* sample_given_x a value (batch, n_dim * K).
C6_CategoricalFlatPredictor ==
    (shp.phase = "done" /\ shp.family = "Categorical" /\ shp.rank = 2
        /\ shp.cols % shp.par = 0 /\ shp.repeat = 1)
        => shp.value = <<shp.batch, shp.cols>>

\* C6 amended: a Categorical with n_dim draws whose predictor declares an
\* output shape with last dimension K and emits n_dim * K values per batch
\* element: fprop returns (batch, n_dim * K) and sample_given_x a value
\* (batch, n_dim * K).
C6_CategoricalShape ==
    (shp.phase = "done" /\ shp.family = "Categorical"
        /\ PerElement = shp.par * shp.cols /\ shp.repeat = 1)
        => shp.value = <<shp.batch, shp.par * shp.cols>>

C6_Witness ==
    /\ shp.phase = "done" /\ shp.family = "Categorical" /\ shp.op = "fprop"
    /\ shp.par = 2 /\ shp.rank = 3 /\ shp.rows = 2 /\ shp.cols = 3
    /\ shp.batch = 2
    /\ shp.value = <<2, 6>>

----------------------------------------------------------------------------
(* SpecParams: get_params. A network is named by its output layer; the      *)
(* layers it is built from are found by following parent (0: the input      *)
(* layer). Layer l owns the parameters W = 2l - 1 and b = 2l.               *)

MaxLayer == 3

Layers == 1..MaxLayer

LayerParams(l) == <<2 * l - 1, 2 * l>>

RECURSIVE Chain(_, _)
Chain(parent, l) == IF l = 0 THEN <<>> ELSE Append(Chain(parent, parent[l]), l)

RECURSIVE Keep(_, _)
Keep(params, frozen) ==
    IF params = <<>> THEN <<>>
    ELSE IF Head(params) \in frozen THEN Keep(Tail(params), frozen)
    ELSE <<Head(params)>> \o Keep(Tail(params), frozen)

\* layer.get_params(trainable=True): the trainable parameters of that layer
Layer_get_params(l, frozen) == Keep(LayerParams(l), frozen)

RECURSIVE CollectParams(_, _)
CollectParams(layers, frozen) ==
    IF layers = <<>> THEN <<>>
    ELSE Layer_get_params(Head(layers), frozen) \o CollectParams(Tail(layers), frozen)

\* lasagne.layers.get_all_params(network, trainable=True): the trainable
\* parameters of every layer below and including the output layer
get_all_params(parent, l, frozen) == CollectParams(Chain(parent, l), frozen)

\* sorted(set(params), key=params.index): first occurrences, in order
RECURSIVE Unique(_)
Unique(params) ==
    IF params = <<>> THEN <<>>
    ELSE LET init == SubSeq(params, 1, Len(params) - 1)
             x == params[Len(params)]
         IN  IF \E j \in 1..Len(init) : init[j] = x
             THEN Unique(init) ELSE Append(Unique(init), x)

\* Distribution.get_params
Distribution_get_params(parent, mean, frozen) == get_all_params(parent, mean, frozen)

\* DistributionDouble.get_params
DistributionDouble_get_params(parent, mean, var, frozen) ==
    Unique(Distribution_get_params(parent, mean, frozen)
           \o Layer_get_params(var, frozen))

ParamsInit ==
    /\ \E parent \in [Layers -> 0..(MaxLayer - 1)], mean \in Layers, var \in Layers,
          frozen \in SUBSET {2 * l : l \in Layers}, dual \in BOOLEAN :
          /\ \A l \in Layers : parent[l] < l
          /\ prm = [phase |-> "built", dual |-> dual, parent |-> parent, mean |-> mean,
                    var |-> var, frozen |-> frozen, results |-> <<>>]
    /\ family = "Deterministic" /\ nGiven = 1 /\ outMean = 1 /\ outVar = 0
    /\ seed = [i \in Inst |-> 1]
    /\ pc = [i \in Inst |-> "new"]
    /\ rng = [i \in Inst |-> <<0, 0>>]
    /\ built = [i \in Inst |-> {}]
    /\ log = [i \in Inst |-> <<>>]
    /\ err = [i \in Inst |-> "none"]
    /\ drawn = [i \in Inst |-> 0]
    /\ last = [i \in Inst |-> NoCall]
    /\ shp = ShapeIdle
    /\ stk = StickIdle

\* a call of get_params on the instance; its result is kept
params_get_params ==
    /\ prm.phase = "built"
    /\ Len(prm.results) < 2
    /\ prm' = [prm EXCEPT !.results = Append(@,
                  IF prm.dual
                  THEN DistributionDouble_get_params(prm.parent, prm.mean, prm.var,
                                                     prm.frozen)
                  ELSE Distribution_get_params(prm.parent, prm.mean, prm.frozen))]
    /\ UNCHANGED <<lifeVars, shp, stk>>

ParamsNext == params_get_params

SpecParams == ParamsInit /\ [][ParamsNext]_vars

\* C5: get_params returns every trainable parameter of every layer of the
\* predictor network(s), for a dual-parameter distribution those of both
\* networks, each once, in first-seen order, and the same list on every call.
C5_AllTrainableParameters ==
    \A c \in 1..Len(prm.results) :
        prm.results[c] =
            Unique(get_all_params(prm.parent, prm.mean, prm.frozen)
                   \o (IF prm.dual
                       THEN get_all_params(prm.parent, prm.var, prm.frozen)
                       ELSE <<>>))

----------------------------------------------------------------------------
(* SpecStick: Kumaraswamy._stick_breaking_process on one batch row (every   *)
(* operation of the fold is elementwise over the batch). The entries of v   *)
(* are the fractions n / Den; numbers are exact fractions <<num, den>>.     *)

MaxDim == 3
Den == 4

RatMul(a, b) == <<a[1] * b[1], a[2] * b[2]>>
RatAdd(a, b) == <<a[1] * b[2] + b[1] * a[2], a[2] * b[2]>>
RatEq(a, b) == a[1] * b[2] = b[1] * a[2]
OneMinus(a) == <<a[2] - a[1], a[2]>>

\* a step that updates the remaining stick before it cuts the segment
segment_remaining_first(v, stick_segment, remaining_stick) ==
    [stick_segment |-> RatMul(v, RatMul(remaining_stick, OneMinus(v))),
     remaining_stick |-> RatMul(remaining_stick, OneMinus(v))]

\* the scan body: stick_segment = v * remaining_stick; remaining_stick *= (1 - v)
segment(v, stick_segment, remaining_stick) ==
    [stick_segment |-> RatMul(v, remaining_stick),
     remaining_stick |-> RatMul(remaining_stick, OneMinus(v))]

StickInit ==
    /\ \E n_dim \in 2..MaxDim :
         \E v \in [1..n_dim -> 0..Den] :
            stk = [phase |-> "scan", n_dim |-> n_dim,
                   v |-> [j \in 1..n_dim |-> <<v[j], Den>>], t |-> 1,
                   stick_segment |-> <<0, 1>>, remaining_stick |-> <<1, 1>>,
                   stick_segments |-> <<>>, remaining_sticks |-> <<>>, pi |-> <<>>]
    /\ family = "Kumaraswamy" /\ nGiven = 1 /\ outMean = 1 /\ outVar = 1
    /\ seed = [i \in Inst |-> 1]
    /\ pc = [i \in Inst |-> "new"]
    /\ rng = [i \in Inst |-> <<0, 0>>]
    /\ built = [i \in Inst |-> {}]
    /\ log = [i \in Inst |-> <<>>]
    /\ err = [i \in Inst |-> "none"]
    /\ drawn = [i \in Inst |-> 0]
    /\ last = [i \in Inst |-> NoCall]
    /\ shp = ShapeIdle
    /\ prm = ParamsIdle

\* one step of theano.scan over sequences = v.T[:-1]
scan_step ==
    /\ stk.phase = "scan"
    /\ stk.t <= stk.n_dim - 1
    /\ LET out == segment(stk.v[stk.t], stk.stick_segment, stk.remaining_stick)
       IN  stk' = [stk EXCEPT !.t = @ + 1,
                              !.stick_segment = out.stick_segment,
                              !.remaining_stick = out.remaining_stick,
                              !.stick_segments = Append(@, out.stick_segment),
                              !.remaining_sticks = Append(@, out.remaining_stick)]
    /\ UNCHANGED <<lifeVars, shp, prm>>

\* T.concatenate([stick_segments.T, remaining_sticks[-1, :][:, np.newaxis]], axis=1)
concatenate ==
    /\ stk.phase = "scan"
    /\ stk.t = stk.n_dim
    /\ stk' = [stk EXCEPT !.phase = "done",
                          !.pi = Append(stk.stick_segments,
                                        stk.remaining_sticks[Len(stk.remaining_sticks)])]
    /\ UNCHANGED <<lifeVars, shp, prm>>

StickNext == scan_step \/ concatenate

SpecStick == StickInit /\ [][StickNext]_vars

\* the mass left before column i: the product of (1 - v[j]) over j < i
RECURSIVE RemainingBefore(_, _)
RemainingBefore(v, i) ==
    IF i = 1 THEN <<1, 1>> ELSE RatMul(RemainingBefore(v, i - 1), OneMinus(v[i - 1]))

RECURSIVE RatSum(_)
RatSum(q) == IF q = <<>> THEN <<0, 1>> ELSE RatAdd(Head(q), RatSum(Tail(q)))

====
